---- MODULE Spec2Model ----
(***************************************************************************)
(* A model of pdfCropMargins.py: the crop-geometry functions               *)
(* (intersectBoxes, getFullPageBox, calculateCropList) and the page-box    *)
(* applier (setCroppedMetadata, applyCropList) as main() drives them.      *)
(*                                                                         *)
(* Numbers.  Box coordinates, percentages and offsets are integers.  The   *)
(* program computes delta * (100.0 - percent) / 100.0 in floating point;   *)
(* the inputs drawn below are multiples of 4 and the percentages are       *)
(* multiples of 50, so that every such quotient is a whole number and the  *)
(* integer quotient used here is the exact value.                          *)
(*                                                                         *)
(* Boxes are 4-tuples <<left, bottom, right, top>>; an absent box (None,   *)
(* anything Python's "not box" accepts) is NoBox.  Strings are tuples of   *)
(* characters.  Page numbers are 0-based as in the program; tuples are     *)
(* 1-based, so page p is element p+1 of a list.                            *)
(***************************************************************************)
EXTENDS Integers, Sequences, FiniteSets, TLC

VARIABLES
  pc,               \* where the run (or the stand-alone call) stands
  status,           \* "running", "ok" or "error" (an uncaught exception)
  run,              \* number of the current run of the program, from 1
  pythonVersion,    \* 2 or 3: decides how round() breaks ties (line 291)
  args,             \* the global args namespace
  producerModifier, \* the global string of line 118
  inputDoc,         \* the pages of the PdfFileReader, as the run mutates them
  producer,         \* the input document's Producer attribute
  pageNumsToCrop,   \* the set of selected page numbers
  fullPageBoxList,  \* result of getFullPageBoxList
  boundingBoxList,  \* result of getBoundingBoxList
  cropList,         \* result of calculateCropList
  warned,           \* the out-of-range warning of line 302 was printed
  outputDoc,        \* the file written by the run
  runInput,         \* history: pages and Producer as the current run read them
  origDoc,          \* history: pages and Producer the first run read
  lastRun,          \* history: what the run before this one read and computed,
                    \*          and whether all the runs before this one cropped
  argsAtCall,       \* history: args as the run (or the first call) was given it
  firstResult       \* history: what the first of two calls returned

vars == <<pc, status, run, pythonVersion, args, producerModifier, inputDoc,
          producer, pageNumsToCrop, fullPageBoxList, boundingBoxList, cropList,
          warned, outputDoc, runInput, origDoc, lastRun, argsAtCall, firstResult>>

-----------------------------------------------------------------------------
(* Bounds of the model. *)

MaxCalcPages == 3
MaxDocPages == 2
MaxRuns == 2

-----------------------------------------------------------------------------
(* Values. *)

NoBox == <<>>

Abs(x) == IF x < 0 THEN 0 - x ELSE x
Min2(a, b) == IF a <= b THEN a ELSE b
Max2(a, b) == IF a >= b THEN a ELSE b
MinOf(S) == CHOOSE x \in S : \A y \in S : x <= y
MaxOf(S) == CHOOSE x \in S : \A y \in S : x >= y

(* Python's sorted() on a list of numbers. *)
RECURSIVE insertSorted(_, _)
insertSorted(x, s) ==
  IF s = <<>> THEN <<x>>
  ELSE IF x <= Head(s) THEN <<x>> \o s
  ELSE <<Head(s)>> \o insertSorted(x, Tail(s))

RECURSIVE sorted(_)
sorted(s) == IF s = <<>> THEN <<>> ELSE insertSorted(Head(s), sorted(Tail(s)))

(* int(round(num / den)) for num >= 0, den > 0.  Python 2 rounds a tie away *)
(* from zero, Python 3 rounds it to the even neighbour.                      *)
pyRound(num, den, version) ==
  LET q == num \div den
      r == num % den
  IN IF 2 * r < den THEN q
     ELSE IF 2 * r > den THEN q + 1
     ELSE IF version = 2 THEN q + 1
     ELSE IF q % 2 = 0 THEN q ELSE q + 1

(* str.endswith *)
endswith(s, suffix) ==
  /\ Len(s) >= Len(suffix)
  /\ SubSeq(s, Len(s) - Len(suffix) + 1, Len(s)) = suffix

(* The string appended to Producer, " (Cropped by pdfCropMargins.)",        *)
(* abbreviated to two characters.                                            *)
ProducerSuffix == <<"(", ")">>

-----------------------------------------------------------------------------
(* intersectBoxes, lines 143-154. *)

(* intersectBoxes with a plausible change: boxes that do not overlap give   *)
(* no box.  C8 is checked to tell the two apart.                            *)
intersectBoxes_emptyIsAbsent(box1, box2) ==
  IF box1 = NoBox /\ box2 = NoBox THEN NoBox
  ELSE IF box1 = NoBox THEN box2
  ELSE IF box2 = NoBox THEN box1
  ELSE IF Max2(box1[1], box2[1]) >= Min2(box1[3], box2[3])
          \/ Max2(box1[2], box2[2]) >= Min2(box1[4], box2[4]) THEN NoBox
  ELSE << Max2(box1[1], box2[1]), Max2(box1[2], box2[2]),
          Min2(box1[3], box2[3]), Min2(box1[4], box2[4]) >>

intersectBoxes(box1, box2) ==
  IF box1 = NoBox /\ box2 = NoBox THEN NoBox
  ELSE IF box1 = NoBox THEN box2
  ELSE IF box2 = NoBox THEN box1
  ELSE << Max2(box1[1], box2[1]), Max2(box1[2], box2[2]),
          Min2(box1[3], box2[3]), Min2(box1[4], box2[4]) >>

-----------------------------------------------------------------------------
(* calculateCropList, lines 211-322.  The function reads and writes the     *)
(* global args, and may raise IndexError; the operator returns the list,    *)
(* whether it raised, whether it printed the warning, and args as the call  *)
(* leaves it.                                                                *)

samePageSizeList(fullList, numPages) ==
  LET n == Len(fullList)
      big == << MinOf({fullList[j][1] : j \in 1..n}),
                MinOf({fullList[j][2] : j \in 1..n}),
                MaxOf({fullList[j][3] : j \in 1..n}),
                MaxOf({fullList[j][4] : j \in 1..n}) >>
  IN [k \in 1..numPages |-> big]

(* adjDeltas with the percentage taken as the part to crop, not the part   *)
(* to retain.  C2 is checked to tell the two apart.                         *)
adjDeltas_percentCropped(tBox, fBox, a) ==
  [i \in 1..4 |->
     (Abs(tBox[i] - fBox[i]) * a.percentRetain[i]) \div 100
       + a.absoluteOffset[i]]

(* Lines 281-283 for one page. *)
adjDeltas(tBox, fBox, a) ==
  [i \in 1..4 |->
     (Abs(tBox[i] - fBox[i]) * (100 - a.percentRetain[i])) \div 100
       + a.absoluteOffset[i]]

(* Lines 279-284. *)
baseDeltaList(fullList, tightList, a) ==
  [k \in 1..Min2(Len(tightList), Len(fullList)) |->
     adjDeltas(tightList[k], fullList[k], a)]

(* cropDeltaListFrom taking the deltas of all the pages, selected or not.   *)
(* C10 is checked to tell the two apart.                                    *)
cropDeltaListFrom_allPages(deltaList, sel, k) ==
  SubSeq(deltaList, k, Len(deltaList))

(* Line 297: the deltas of the selected pages, in page order. *)
RECURSIVE cropDeltaListFrom(_, _, _)
cropDeltaListFrom(deltaList, sel, k) ==
  IF k > Len(deltaList) THEN <<>>
  ELSE (IF (k - 1) \in sel THEN <<deltaList[k]>> ELSE <<>>)
         \o cropDeltaListFrom(deltaList, sel, k + 1)

(* percentToOrderStat that also clears the percentile it has converted.    *)
(* C7 is checked to tell the two apart.                                     *)
percentToOrderStat_clearsPercent(a, numPagesToCrop, version) ==
  IF a.uniformOrderPercent # <<>>
  THEN LET p0 == a.uniformOrderPercent[1]
           p1 == IF p0 < 0 THEN 0 ELSE p0
           p2 == IF p1 > 100 THEN 100 ELSE p1
       IN [a EXCEPT !.uniformOrderStat =
                       << pyRound(numPagesToCrop * p2, 100, version) >>,
                    !.uniformOrderPercent = <<>>]
  ELSE a

(* Lines 287-291: a percentile overwrites args.uniformOrderStat. *)
percentToOrderStat(a, numPagesToCrop, version) ==
  IF a.uniformOrderPercent # <<>>
  THEN LET p0 == a.uniformOrderPercent[1]
           p1 == IF p0 < 0 THEN 0 ELSE p0
           p2 == IF p1 > 100 THEN 100 ELSE p1
       IN [a EXCEPT !.uniformOrderStat =
                       << pyRound(numPagesToCrop * p2, 100, version) >>]
  ELSE a

(* orderIndex without the upper part of the recovery of lines 303-304.     *)
(* C11 is checked to tell the two apart.                                    *)
orderIndex_noUpperClamp(a, numPagesToCrop) ==
  LET i0 == IF a.uniformOrderStat # <<>> THEN a.uniformOrderStat[1] ELSE 0
      out == i0 < 0 \/ i0 >= numPagesToCrop
      i2 == IF out /\ i0 < 0 THEN 0 ELSE i0
  IN [i |-> i2, warned |-> out]

(* Lines 299-305: the index into the sorted deltas. *)
orderIndex(a, numPagesToCrop) ==
  LET i0 == IF a.uniformOrderStat # <<>> THEN a.uniformOrderStat[1] ELSE 0
      out == i0 < 0 \/ i0 >= numPagesToCrop
      i1 == IF out /\ i0 >= numPagesToCrop THEN numPagesToCrop - 1 ELSE i0
      i2 == IF out /\ i1 < 0 THEN 0 ELSE i1
  IN [i |-> i2, warned |-> out]

(* Lines 316-320. *)
finalCropList(fullList, deltaList) ==
  [k \in 1..Min2(Len(fullList), Len(deltaList)) |->
     << fullList[k][1] + deltaList[k][1], fullList[k][2] + deltaList[k][2],
        fullList[k][3] - deltaList[k][3], fullList[k][4] - deltaList[k][4] >>]

(* uniformWithEvenOdd levelling all four margins, not bottom and top only. *)
(* C3 is checked to tell the two apart.                                     *)
uniformWithEvenOdd_allMargins(combineEvenOdd) ==
  LET n == Len(combineEvenOdd)
  IN [k \in 1..n |-> << MinOf({combineEvenOdd[j][1] : j \in 1..n}),
                        MinOf({combineEvenOdd[j][2] : j \in 1..n}),
                        MaxOf({combineEvenOdd[j][3] : j \in 1..n}),
                        MaxOf({combineEvenOdd[j][4] : j \in 1..n}) >>]

(* uniformWithEvenOdd levelling bottom and top within each parity group,   *)
(* not across the two.  C14 is checked to tell the two apart.               *)
uniformWithEvenOdd_perParity(combineEvenOdd) ==
  LET n == Len(combineEvenOdd)
      same(k) == {j \in 1..n : j % 2 = k % 2}
  IN [k \in 1..n |-> << combineEvenOdd[k][1],
                        MinOf({combineEvenOdd[j][2] : j \in same(k)}),
                        combineEvenOdd[k][3],
                        MaxOf({combineEvenOdd[j][4] : j \in same(k)}) >>]

(* Lines 264-269: the pass made when --uniform came with --evenodd. *)
uniformWithEvenOdd(combineEvenOdd) ==
  LET n == Len(combineEvenOdd)
      minBottomMargin == MinOf({combineEvenOdd[k][2] : k \in 1..n})
      maxTopMargin == MaxOf({combineEvenOdd[k][4] : k \in 1..n})
  IN [k \in 1..n |-> << combineEvenOdd[k][1], minBottomMargin,
                        combineEvenOdd[k][3], maxTopMargin >>]

(* Lines 272-322: the part of the function below the even/odd branch. *)
cropListNoEvenOdd(fullList, tightList, sel, a0, version) ==
  LET numPages == Len(tightList)
      numPagesToCrop == Cardinality(sel)
      deltaList == baseDeltaList(fullList, tightList, a0)
      a == percentToOrderStat(a0, numPagesToCrop, version)
  IN IF a.uniform \/ a.uniformOrderStat # <<>>
     THEN LET cropDeltaList == cropDeltaListFrom(deltaList, sel, 1)
              oi == orderIndex(a, numPagesToCrop)
              leftVals == sorted([j \in 1..Len(cropDeltaList) |-> cropDeltaList[j][1]])
              lowerVals == sorted([j \in 1..Len(cropDeltaList) |-> cropDeltaList[j][2]])
              rightVals == sorted([j \in 1..Len(cropDeltaList) |-> cropDeltaList[j][3]])
              upperVals == sorted([j \in 1..Len(cropDeltaList) |-> cropDeltaList[j][4]])
          IN IF oi.i + 1 > Len(leftVals)
             THEN \* leftVals[i] raises IndexError
                  [err |-> TRUE, list |-> <<>>, warned |-> oi.warned, args |-> a]
             ELSE [err |-> FALSE,
                   list |-> finalCropList(fullList,
                              [k \in 1..numPages |->
                                 << leftVals[oi.i + 1], lowerVals[oi.i + 1],
                                    rightVals[oi.i + 1], upperVals[oi.i + 1] >>]),
                   warned |-> oi.warned, args |-> a]
     ELSE [err |-> FALSE, list |-> finalCropList(fullList, deltaList),
           warned |-> FALSE, args |-> a]

(* Lines 245-246: the selected pages of each parity. *)
evenPageNumsToCrop(pageNums) == {pNum \in pageNums : pNum % 2 = 0}

(* oddPageNumsToCrop taking the whole selection.  C16 is checked to tell    *)
(* the two apart.                                                            *)
oddPageNumsToCrop_wholeSelection(pageNums) == pageNums

oddPageNumsToCrop(pageNums) == {pNum \in pageNums : pNum % 2 # 0}

RECURSIVE calculateCropList(_, _, _, _, _)
calculateCropList(fullList0, tightList, sel, a, version) ==
  LET numPages == Len(tightList)
      fullList == IF a.samePageSize THEN samePageSizeList(fullList0, numPages)
                  ELSE fullList0
  IN IF a.evenodd
     THEN LET uniformSetWithEvenOdd == a.uniform
              a1 == [a EXCEPT !.evenodd = FALSE, !.uniform = TRUE]
              ev == calculateCropList(fullList, tightList, evenPageNumsToCrop(sel),
                                        a1, version)
          IN IF ev.err THEN ev
             ELSE LET od == calculateCropList(fullList, tightList,
                                              oddPageNumsToCrop(sel), ev.args, version)
                      combineEvenOdd == [k \in 1..numPages |->
                                           IF (k - 1) % 2 = 0 THEN ev.list[k]
                                           ELSE od.list[k]]
                  IN IF od.err
                     THEN [od EXCEPT !.warned = ev.warned \/ od.warned]
                     ELSE [err |-> FALSE,
                           list |-> IF uniformSetWithEvenOdd
                                    THEN uniformWithEvenOdd(combineEvenOdd)
                                    ELSE combineEvenOdd,
                           warned |-> ev.warned \/ od.warned,
                           args |-> od.args]
     ELSE cropListNoEvenOdd(fullList, tightList, sel, a, version)

-----------------------------------------------------------------------------
(* getFullPageBox and getFullPageBoxList, lines 157-208.  A page is a       *)
(* record of its five boxes and of the two attributes getFullPageBox adds.  *)

pageBox(page, boxString) ==
  CASE boxString = "m" -> page.mediaBox
    [] boxString = "c" -> page.cropBox
    [] boxString = "t" -> page.trimBox
    [] boxString = "a" -> page.artBox
    [] boxString = "b" -> page.bleedBox

(* Lines 170-183: the left fold of intersectBoxes over args.fullPageBox. *)
RECURSIVE fullBoxFold(_, _, _, _)
fullBoxFold(page, fullPageBox, k, fullBox) ==
  IF k > Len(fullPageBox) THEN fullBox
  ELSE fullBoxFold(page, fullPageBox, k + 1,
                   IF k = 1 THEN pageBox(page, fullPageBox[k])
                   ELSE intersectBoxes(fullBox, pageBox(page, fullPageBox[k])))

getFullPageBox(page, fullPageBox) ==
  LET fullBox == fullBoxFold(page, fullPageBox, 1, NoBox)
  IN [page EXCEPT !.originalMediaBox = page.mediaBox,
                  !.originalCropBox = page.cropBox,
                  !.mediaBox = fullBox,
                  !.cropBox = fullBox]

(* Lines 197-206.  Line 206 iterates over the full-page box and raises      *)
(* TypeError on an absent one; the pages before it have been resolved.       *)
getFullPageBoxList(pages, fullPageBox) ==
  LET resolved == [k \in 1..Len(pages) |-> getFullPageBox(pages[k], fullPageBox)]
      absent == {k \in 1..Len(pages) : resolved[k].mediaBox = NoBox}
      stop == IF absent = {} THEN Len(pages) ELSE MinOf(absent)
  IN [err |-> absent # {},
      pages |-> [k \in 1..Len(pages) |-> IF k <= stop THEN resolved[k] ELSE pages[k]],
      list |-> IF absent # {} THEN <<>>
               ELSE [k \in 1..Len(pages) |-> resolved[k].mediaBox]]

-----------------------------------------------------------------------------
(* setCroppedMetadata, lines 325-361.  The Producer attribute is a record:  *)
(* none is TRUE when the document has no Producer (the reader gives None),  *)
(* and line 335 then raises AttributeError.                                  *)

st(item) == IF item.none THEN <<>> ELSE item.s

(* setCroppedMetadata appending the suffix whether or not it is there.      *)
(* C9 is checked to tell the two apart.                                     *)
setCroppedMetadata_alwaysAppends(oldProducer, modifier) ==
  IF oldProducer.none
  THEN [err |-> TRUE, alreadyCroppedByThisProgram |-> FALSE,
        producerModifier |-> modifier, producer |-> oldProducer]
  ELSE [err |-> FALSE,
        alreadyCroppedByThisProgram |-> endswith(oldProducer.s, modifier),
        producerModifier |-> modifier,
        producer |-> [none |-> FALSE, s |-> oldProducer.s \o modifier]]

(* setCroppedMetadata taking the document as cropped only when Producer is *)
(* the suffix and nothing else.  C15 is checked to tell the two apart.      *)
setCroppedMetadata_equalityTest(oldProducer, modifier) ==
  IF oldProducer.none
  THEN [err |-> TRUE, alreadyCroppedByThisProgram |-> FALSE,
        producerModifier |-> modifier, producer |-> oldProducer]
  ELSE LET already == oldProducer.s = modifier
           newModifier == IF already THEN <<>> ELSE modifier
       IN [err |-> FALSE, alreadyCroppedByThisProgram |-> already,
           producerModifier |-> newModifier,
           producer |-> [none |-> FALSE, s |-> st(oldProducer) \o newModifier]]

setCroppedMetadata(oldProducer, modifier) ==
  IF oldProducer.none
  THEN [err |-> TRUE, alreadyCroppedByThisProgram |-> FALSE,
        producerModifier |-> modifier, producer |-> oldProducer]
  ELSE LET already == endswith(oldProducer.s, modifier)
           newModifier == IF already THEN <<>> ELSE modifier
       IN [err |-> FALSE, alreadyCroppedByThisProgram |-> already,
           producerModifier |-> newModifier,
           producer |-> [none |-> FALSE, s |-> st(oldProducer) \o newModifier]]

-----------------------------------------------------------------------------
(* applyCropList, lines 364-426. *)

inSeq(x, s) == \E k \in 1..Len(s) : s[k] = x

(* restorePage reading the TrimBox instead of the ArtBox.  C1 is checked    *)
(* to tell the two apart.                                                    *)
restorePage_fromTrimBox(currPage) ==
  [currPage EXCEPT !.mediaBox = currPage.trimBox, !.cropBox = currPage.trimBox]

(* Lines 388-392: the restore of one page. *)
restorePage(currPage) ==
  [currPage EXCEPT !.mediaBox = currPage.artBox, !.cropBox = currPage.artBox]

(* savePage without the reset of lines 400-401.  C6 is checked to tell the  *)
(* two apart.                                                                *)
savePage_noReset(currPage, noundosave, alreadyCroppedByThisProgram) ==
  IF ~noundosave /\ ~alreadyCroppedByThisProgram
  THEN [currPage EXCEPT !.artBox =
           intersectBoxes(currPage.mediaBox, currPage.cropBox)]
  ELSE currPage

(* savePage saving to the ArtBox whether or not the document carries the   *)
(* marker.  C13 is checked to tell the two apart.                           *)
savePage_ignoresMarker(currPage, noundosave, alreadyCroppedByThisProgram) ==
  LET saved == IF ~noundosave
               THEN [currPage EXCEPT !.artBox =
                        intersectBoxes(currPage.mediaBox, currPage.cropBox)]
               ELSE currPage
  IN [saved EXCEPT !.mediaBox = saved.originalMediaBox,
                   !.cropBox = saved.originalCropBox]

(* Lines 394-401: the save to the ArtBox, then the reset of the two boxes. *)
savePage(currPage, noundosave, alreadyCroppedByThisProgram) ==
  LET saved == IF ~noundosave /\ ~alreadyCroppedByThisProgram
               THEN [currPage EXCEPT !.artBox =
                        intersectBoxes(currPage.mediaBox, currPage.cropBox)]
               ELSE currPage
  IN [saved EXCEPT !.mediaBox = saved.originalMediaBox,
                   !.cropBox = saved.originalCropBox]

(* Lines 410-422: the boxes named by boxesToSet take the new box. *)
setBoxes(currPage, newCroppedBox, boxesToSet) ==
  [currPage EXCEPT
     !.mediaBox = IF inSeq("m", boxesToSet) THEN newCroppedBox ELSE @,
     !.cropBox = IF inSeq("c", boxesToSet) THEN newCroppedBox ELSE @,
     !.trimBox = IF inSeq("t", boxesToSet) THEN newCroppedBox ELSE @,
     !.artBox = IF inSeq("a", boxesToSet) THEN newCroppedBox ELSE @,
     !.bleedBox = IF inSeq("b", boxesToSet) THEN newCroppedBox ELSE @]

(* Line 415, reached by the first selected page of a crop run. *)
boxesToSetDefault(a, pages, sel) ==
  IF ~a.restore /\ a.boxesToSet = <<>> /\ (\E k \in 1..Len(pages) : (k - 1) \in sel)
  THEN [a EXCEPT !.boxesToSet = <<"m", "c">>]
  ELSE a

applyCropList(list, pages, oldProducer, sel, a, modifier) ==
  LET meta == setCroppedMetadata(oldProducer, modifier)
      a1 == boxesToSetDefault(a, pages, sel)
      outPage(k) ==
        IF a.restore THEN restorePage(pages[k])
        ELSE LET saved == savePage(pages[k], a.noundosave,
                                   meta.alreadyCroppedByThisProgram)
             IN IF (k - 1) \notin sel THEN saved
                ELSE setBoxes(saved, list[k], a1.boxesToSet)
  IN IF meta.err
     THEN [err |-> TRUE, pages |-> pages, producer |-> oldProducer,
           args |-> a, producerModifier |-> modifier]
     ELSE [err |-> FALSE,
           pages |-> [k \in 1..Len(pages) |-> outPage(k)],
           producer |-> meta.producer,
           args |-> a1,
           producerModifier |-> meta.producerModifier]

-----------------------------------------------------------------------------
(* getBoundingBoxList lives in calculate_bounding_boxes, outside this file: *)
(* it returns one tight box per page.  Here the detector finds the content  *)
(* a fixed distance inside each page's full box.                            *)

TightInsets == { <<4, 4, 4, 4>>, <<0, 8, 4, 0>> }

getBoundingBoxList(fullList, inset) ==
  [k \in 1..Len(fullList) |->
     << fullList[k][1] + inset[1], fullList[k][2] + inset[2],
        fullList[k][3] - inset[3], fullList[k][4] - inset[4] >>]

-----------------------------------------------------------------------------
(* The inputs of the model. *)

Zero4 == <<0, 0, 0, 0>>

noArgs ==
  [samePageSize |-> FALSE, evenodd |-> FALSE, uniform |-> FALSE,
   uniformOrderStat |-> <<>>, uniformOrderPercent |-> <<>>,
   percentRetain |-> Zero4, absoluteOffset |-> Zero4,
   fullPageBox |-> <<"m", "c">>, boxesToSet |-> <<>>,
   noundosave |-> FALSE, restore |-> FALSE]

(* Inputs of a stand-alone call of calculateCropList: per page a full box   *)
(* and a tight box; the second tight box sticks out of its full box.        *)
PageInputs ==
  { [full |-> <<0, 0, 40, 80>>, tight |-> <<4, 8, 36, 72>>],
    [full |-> <<4, 4, 48, 72>>, tight |-> <<-4, 8, 44, 68>>] }

MarginChoices ==
  { [percentRetain |-> Zero4, absoluteOffset |-> Zero4],
    [percentRetain |-> <<100, 100, 100, 100>>, absoluteOffset |-> Zero4],
    [percentRetain |-> <<0, 50, 100, 150>>, absoluteOffset |-> <<0, 4, -4, 0>>] }

(* --uniformOrderStat, --uniformOrderPercent and the interpreter. *)
OrderChoices ==
  { [stat |-> <<>>, percent |-> <<>>, version |-> 3] }
  \cup { [stat |-> <<i>>, percent |-> <<>>, version |-> 3] : i \in {-1, 0, 1, 3} }
  \cup { [stat |-> <<>>, percent |-> <<25>>, version |-> v] : v \in {2, 3} }
  \cup { [stat |-> <<>>, percent |-> <<150>>, version |-> 3] }

(* Pages of an input document. *)
newPage(m, c, t, a, b) ==
  [mediaBox |-> m, cropBox |-> c, trimBox |-> t, artBox |-> a, bleedBox |-> b,
   originalMediaBox |-> NoBox, originalCropBox |-> NoBox]

PageChoices ==
  { newPage(<<0, 0, 40, 80>>, <<0, 0, 40, 80>>, <<0, 0, 40, 80>>,
            <<0, 0, 40, 80>>, <<0, 0, 40, 80>>),
    newPage(<<0, 0, 40, 80>>, <<4, 4, 36, 76>>, <<8, 8, 32, 72>>,
            <<0, 0, 20, 20>>, <<0, 0, 40, 80>>),
    newPage(<<0, 0, 40, 80>>, <<48, 0, 80, 80>>, NoBox, NoBox, <<0, 0, 40, 80>>) }

ProducerChoices ==
  { [none |-> TRUE, s |-> <<>>],
    [none |-> FALSE, s |-> <<"x">>],
    [none |-> FALSE, s |-> <<"x">> \o ProducerSuffix] }

FullPageBoxChoices == { <<"m", "c">>, <<"t">>, <<"a", "t", "b">> }

BoxesToSetChoices == { <<>>, <<"m", "c", "a">>, <<"t", "b">> }

(* The page, as a later run reads it from the written file: the attributes  *)
(* added by getFullPageBox are not part of the file.                        *)
filePage(page) ==
  [page EXCEPT !.originalMediaBox = NoBox, !.originalCropBox = NoBox]

noOutput == [written |-> FALSE, pages |-> <<>>, producer |-> [none |-> TRUE, s |-> <<>>]]
noDoc == [pages |-> <<>>, producer |-> [none |-> TRUE, s |-> <<>>]]
noResult == [err |-> FALSE, list |-> <<>>]
noRun == [ran |-> FALSE, allCrop |-> TRUE, input |-> noDoc, args |-> noArgs,
          pageNumsToCrop |-> {}, fullPageBoxList |-> <<>>, cropList |-> <<>>]

-----------------------------------------------------------------------------
(* Specification SpecCalc: calculateCropList called twice in a row with the *)
(* same arguments, the global args left as the first call wrote it.         *)

InitCalc ==
  /\ pc = "call"
  /\ status = "running"
  /\ run = 1
  /\ \E n \in 1..MaxCalcPages :
       /\ \E inputs \in [1..n -> PageInputs] :
            /\ fullPageBoxList = [k \in 1..n |-> inputs[k].full]
            /\ boundingBoxList = [k \in 1..n |-> inputs[k].tight]
       /\ pageNumsToCrop \in SUBSET (0..(n - 1))
  /\ \E m \in MarginChoices, o \in OrderChoices,
        sps \in BOOLEAN, eo \in BOOLEAN, u \in BOOLEAN :
       /\ args = [noArgs EXCEPT !.samePageSize = sps, !.evenodd = eo, !.uniform = u,
                                !.uniformOrderStat = o.stat,
                                !.uniformOrderPercent = o.percent,
                                !.percentRetain = m.percentRetain,
                                !.absoluteOffset = m.absoluteOffset]
       /\ pythonVersion = o.version
  /\ producerModifier = ProducerSuffix
  /\ inputDoc = <<>>
  /\ producer = [none |-> TRUE, s |-> <<>>]
  /\ cropList = <<>>
  /\ warned = FALSE
  /\ outputDoc = noOutput
  /\ runInput = noDoc
  /\ origDoc = noDoc
  /\ lastRun = noRun
  /\ argsAtCall = args
  /\ firstResult = noResult

Call ==
  /\ pc = "call"
  /\ LET r == calculateCropList(fullPageBoxList, boundingBoxList, pageNumsToCrop,
                                args, pythonVersion)
     IN /\ cropList' = r.list
        /\ warned' = r.warned
        /\ args' = r.args
        /\ status' = IF r.err THEN "error" ELSE "ok"
        /\ firstResult' = [err |-> r.err, list |-> r.list]
  /\ pc' = "returned"
  /\ UNCHANGED <<run, pythonVersion, producerModifier, inputDoc, producer,
                 pageNumsToCrop, fullPageBoxList, boundingBoxList, outputDoc,
                 runInput, origDoc, lastRun, argsAtCall>>

CallAgain ==
  /\ pc = "returned"
  /\ LET r == calculateCropList(fullPageBoxList, boundingBoxList, pageNumsToCrop,
                                args, pythonVersion)
     IN /\ cropList' = r.list
        /\ warned' = r.warned
        /\ args' = r.args
        /\ status' = IF r.err THEN "error" ELSE "ok"
  /\ pc' = "returnedAgain"
  /\ UNCHANGED <<run, pythonVersion, producerModifier, inputDoc, producer,
                 pageNumsToCrop, fullPageBoxList, boundingBoxList, outputDoc,
                 runInput, origDoc, lastRun, argsAtCall, firstResult>>

NextCalc == Call \/ CallAgain

SpecCalc == InitCalc /\ [][NextCalc]_vars

-----------------------------------------------------------------------------
(* Specification Spec: runs of main(), lines 439-678, each on the file the  *)
(* run before it wrote.                                                      *)

(* What the command line of a run chooses among. *)
CropChoices ==
  { [evenodd |-> FALSE, uniform |-> FALSE], [evenodd |-> TRUE, uniform |-> FALSE] }

Init ==
  /\ pc = "main"
  /\ status = "running"
  /\ run = 1
  /\ pythonVersion = 3
  /\ \E n \in 1..MaxDocPages :
       /\ inputDoc \in [1..n -> PageChoices]
       /\ pageNumsToCrop \in SUBSET (0..(n - 1))
  /\ producer \in ProducerChoices
  /\ \E f \in FullPageBoxChoices, b \in BoxesToSetChoices, c \in CropChoices,
        nus \in BOOLEAN, r \in BOOLEAN :
       args = [noArgs EXCEPT !.fullPageBox = f, !.boxesToSet = b,
                             !.evenodd = c.evenodd, !.uniform = c.uniform,
                             !.noundosave = nus, !.restore = r]
  /\ producerModifier = ProducerSuffix
  /\ fullPageBoxList = <<>>
  /\ boundingBoxList = <<>>
  /\ cropList = <<>>
  /\ warned = FALSE
  /\ outputDoc = noOutput
  /\ runInput = [pages |-> inputDoc, producer |-> producer]
  /\ origDoc = [pages |-> inputDoc, producer |-> producer]
  /\ lastRun = noRun
  /\ argsAtCall = args
  /\ firstResult = noResult

(* Line 585. *)
GetFullPageBoxList ==
  /\ pc = "main"
  /\ LET r == getFullPageBoxList(inputDoc, args.fullPageBox)
     IN /\ inputDoc' = r.pages
        /\ fullPageBoxList' = r.list
        /\ status' = IF r.err THEN "error" ELSE status
        /\ pc' = IF r.err THEN "done" ELSE "resolved"
  /\ UNCHANGED <<run, pythonVersion, args, producerModifier, producer,
                 pageNumsToCrop, boundingBoxList, cropList, warned, outputDoc,
                 runInput, origDoc, lastRun, argsAtCall, firstResult>>

(* Lines 591-602. *)
CalculateCropList ==
  /\ pc = "resolved"
  /\ IF args.restore
     THEN /\ cropList' = <<>>
          /\ pc' = "calculated"
          /\ UNCHANGED <<boundingBoxList, args, warned, status>>
     ELSE \E inset \in TightInsets :
            LET tight == getBoundingBoxList(fullPageBoxList, inset)
                r == calculateCropList(fullPageBoxList, tight, pageNumsToCrop,
                                       args, pythonVersion)
            IN /\ boundingBoxList' = tight
               /\ cropList' = r.list
               /\ warned' = r.warned
               /\ args' = r.args
               /\ status' = IF r.err THEN "error" ELSE status
               /\ pc' = IF r.err THEN "done" ELSE "calculated"
  /\ UNCHANGED <<run, pythonVersion, producerModifier, inputDoc, producer,
                 pageNumsToCrop, fullPageBoxList, outputDoc, runInput, origDoc,
                 lastRun, argsAtCall, firstResult>>

(* Lines 608-617: applyCropList, then the write of the output file. *)
ApplyCropList ==
  /\ pc = "calculated"
  /\ LET r == applyCropList(cropList, inputDoc, producer, pageNumsToCrop, args,
                            producerModifier)
     IN /\ inputDoc' = r.pages
        /\ args' = r.args
        /\ producerModifier' = r.producerModifier
        /\ status' = IF r.err THEN "error" ELSE "ok"
        /\ outputDoc' = IF r.err THEN outputDoc
                        ELSE [written |-> TRUE,
                              pages |-> [k \in 1..Len(r.pages) |-> filePage(r.pages[k])],
                              producer |-> r.producer]
  /\ pc' = "done"
  /\ UNCHANGED <<run, pythonVersion, producer, pageNumsToCrop, fullPageBoxList,
                 boundingBoxList, cropList, warned, runInput, origDoc, lastRun, argsAtCall,
                 firstResult>>

(* The program is started again, on the file the last run wrote, with the   *)
(* same box options, undo-save option and page selection, in crop or        *)
(* restore mode, and with no grouping option.                               *)
NextRun ==
  /\ pc = "done"
  /\ status = "ok"
  /\ run < MaxRuns
  /\ run' = run + 1
  /\ pc' = "main"
  /\ status' = "running"
  /\ inputDoc' = outputDoc.pages
  /\ producer' = outputDoc.producer
  /\ runInput' = [pages |-> outputDoc.pages, producer |-> outputDoc.producer]
  /\ lastRun' = [ran |-> TRUE, allCrop |-> lastRun.allCrop /\ ~argsAtCall.restore,
                  input |-> runInput, args |-> argsAtCall,
                  pageNumsToCrop |-> pageNumsToCrop,
                  fullPageBoxList |-> fullPageBoxList, cropList |-> cropList]
  /\ \E r \in BOOLEAN :
       args' = [noArgs EXCEPT !.fullPageBox = argsAtCall.fullPageBox,
                              !.boxesToSet = argsAtCall.boxesToSet,
                              !.noundosave = argsAtCall.noundosave,
                              !.restore = r]
  /\ argsAtCall' = args'
  /\ producerModifier' = ProducerSuffix
  /\ fullPageBoxList' = <<>>
  /\ boundingBoxList' = <<>>
  /\ cropList' = <<>>
  /\ warned' = FALSE
  /\ outputDoc' = noOutput
  /\ UNCHANGED <<pythonVersion, pageNumsToCrop, origDoc, firstResult>>

Next == GetFullPageBoxList \/ CalculateCropList \/ ApplyCropList \/ NextRun

Spec == Init /\ [][Next]_vars

-----------------------------------------------------------------------------
(* Vocabulary of the properties.                                             *)

given == argsAtCall
numPagesOfCall == Len(boundingBoxList)
Returned == pc = "returned"

UniformMode(a) ==
  a.uniform \/ a.uniformOrderStat # <<>> \/ a.uniformOrderPercent # <<>>

NoGrouping(a) == ~a.samePageSize /\ ~a.evenodd /\ ~UniformMode(a)

EvenPages(sel) == {p \in sel : p % 2 = 0}
OddPages(sel) == {p \in sel : p % 2 = 1}

(* The uniform step would have to pick a delta from a group with no page. *)
EmptyGroup(a, sel) ==
  IF a.evenodd THEN EvenPages(sel) = {} \/ OddPages(sel) = {}
  ELSE UniformMode(a) /\ sel = {}

(* Margin i of the tight box of page k lies on or inside the full box. *)
Inside(k, i) ==
  IF i <= 2 THEN fullPageBoxList[k][i] <= boundingBoxList[k][i]
  ELSE boundingBoxList[k][i] <= fullPageBoxList[k][i]

(* The full boxes the deltas of a call are measured from. *)
FullOfCall ==
  IF given.samePageSize
  THEN [k \in 1..numPagesOfCall |->
          << MinOf({fullPageBoxList[j][1] : j \in 1..numPagesOfCall}),
             MinOf({fullPageBoxList[j][2] : j \in 1..numPagesOfCall}),
             MaxOf({fullPageBoxList[j][3] : j \in 1..numPagesOfCall}),
             MaxOf({fullPageBoxList[j][4] : j \in 1..numPagesOfCall}) >>]
  ELSE fullPageBoxList

(* The delta of page p (0-based) for margin m, by the formula of the spec. *)
PageDelta(p, m) ==
  (Abs(boundingBoxList[p + 1][m] - FullOfCall[p + 1][m])
     * (100 - given.percentRetain[m])) \div 100 + given.absoluteOffset[m]

(* The delta the returned list applies to page p for margin m. *)
AppliedDelta(p, m) ==
  IF m <= 2 THEN cropList[p + 1][m] - FullOfCall[p + 1][m]
  ELSE FullOfCall[p + 1][m] - cropList[p + 1][m]

(* v is the i-th smallest (from 0) of the deltas of the pages of S for m. *)
IsIthSmallest(v, S, m, i) ==
  /\ \E p \in S : PageDelta(p, m) = v
  /\ Cardinality({p \in S : PageDelta(p, m) < v}) <= i
  /\ Cardinality({p \in S : PageDelta(p, m) <= v}) > i

ClampIndex(i, count) ==
  IF i < 0 THEN 0 ELSE IF i >= count THEN count - 1 ELSE i

SuppliedIndex ==
  IF given.uniformOrderPercent # <<>>
  THEN LET q == given.uniformOrderPercent[1]
           c == IF q < 0 THEN 0 ELSE IF q > 100 THEN 100 ELSE q
           x == Cardinality(pageNumsToCrop) * c
       IN IF 2 * (x % 100) < 100 THEN x \div 100
          ELSE IF 2 * (x % 100) > 100 THEN x \div 100 + 1
          ELSE IF pythonVersion = 2 \/ (x \div 100) % 2 = 1 THEN x \div 100 + 1
          ELSE x \div 100
  ELSE IF given.uniformOrderStat # <<>> THEN given.uniformOrderStat[1]
  ELSE 0

EffectiveIndex == ClampIndex(SuppliedIndex, Cardinality(pageNumsToCrop))

Marked(p) == ~p.none /\ endswith(p.s, ProducerSuffix)

Named(page, fullPageBox) ==
  {pageBox(page, fullPageBox[j]) : j \in 1..Len(fullPageBox)} \ {NoBox}

(* Every source box named for the page is absent. *)
SourcesAbsent(page, fullPageBox) == Named(page, fullPageBox) = {}

(* The common rectangle of the source boxes present on the page. *)
CommonBox(page, fullPageBox) ==
  LET B == Named(page, fullPageBox)
  IN << MaxOf({b[1] : b \in B}), MaxOf({b[2] : b \in B}),
        MinOf({b[3] : b \in B}), MinOf({b[4] : b \in B}) >>

(* The source boxes present on the page have no non-empty common rectangle. *)
SourcesEmpty(page, fullPageBox) ==
  /\ ~SourcesAbsent(page, fullPageBox)
  /\ LET c == CommonBox(page, fullPageBox) IN c[1] >= c[3] \/ c[2] >= c[4]

EffectiveBoxesToSet(b) == IF b = <<>> THEN <<"m", "c">> ELSE b

CropRunDone == pc = "done" /\ status = "ok" /\ ~given.restore
RestoreRunDone == pc = "done" /\ status = "ok" /\ given.restore

(* The run before this one was a crop run, with undo-save, of a document    *)
(* without the marker, and this run restored its output.                    *)
RestoredAfterCrop ==
  /\ RestoreRunDone
  /\ lastRun.ran
  /\ ~lastRun.args.restore
  /\ ~lastRun.args.noundosave
  /\ ~Marked(lastRun.input.producer)

-----------------------------------------------------------------------------
(* C1, as stated: after a crop run with undo-save on an unmarked document   *)
(* and a restore run on its output, every page has its original media box   *)
(* and its original crop box.                                                *)
C1_RoundTripOriginal ==
  RestoredAfterCrop =>
    \A k \in 1..Len(outputDoc.pages) :
      /\ outputDoc.pages[k].mediaBox = lastRun.input.pages[k].mediaBox
      /\ outputDoc.pages[k].cropBox = lastRun.input.pages[k].cropBox

(* C1, amended: after that round trip the media box and the crop box of a   *)
(* page are both the full-page box the crop run resolved for it (the common *)
(* rectangle of the source boxes named by fullPageBox), or, on a selected   *)
(* page when the art box was among the boxes to set, the crop box written.  *)
C1_RoundTripFullBox ==
  RestoredAfterCrop =>
    \A k \in 1..Len(outputDoc.pages) :
      LET back == IF (k - 1) \in lastRun.pageNumsToCrop
                     /\ inSeq("a", EffectiveBoxesToSet(lastRun.args.boxesToSet))
                  THEN lastRun.cropList[k]
                  ELSE CommonBox(lastRun.input.pages[k], lastRun.args.fullPageBox)
      IN /\ outputDoc.pages[k].mediaBox = back
         /\ outputDoc.pages[k].cropBox = back

C1_Witness ==
  /\ RestoredAfterCrop
  /\ \E k \in 1..Len(outputDoc.pages) :
       /\ lastRun.input.pages[k].mediaBox # lastRun.input.pages[k].cropBox
       /\ outputDoc.pages[k].mediaBox = outputDoc.pages[k].cropBox
       /\ (k - 1) \in lastRun.pageNumsToCrop

-----------------------------------------------------------------------------
(* C2, as stated: with percentRetain and absoluteOffset all zero and no     *)
(* grouping mode, every returned crop box equals the tight box of its page. *)
C2_CropIsTight ==
  (Returned /\ NoGrouping(given) /\ given.percentRetain = Zero4
     /\ given.absoluteOffset = Zero4)
    => status = "ok" /\ cropList = boundingBoxList

(* C2, amended: under the same settings a crop coordinate equals the tight  *)
(* box's where the tight box lies on or inside the full box for that        *)
(* margin; where the tight box sticks out, the crop coordinate lies as far  *)
(* inside the full box as the tight one lies outside (2*full - tight).      *)
C2_CropIsTightWhereInside ==
  (Returned /\ NoGrouping(given) /\ given.percentRetain = Zero4
     /\ given.absoluteOffset = Zero4)
    => /\ status = "ok"
       /\ Len(cropList) = numPagesOfCall
       /\ \A k \in 1..numPagesOfCall : \A i \in 1..4 :
            cropList[k][i] = IF Inside(k, i) THEN boundingBoxList[k][i]
                             ELSE 2 * fullPageBoxList[k][i] - boundingBoxList[k][i]

C2_Witness ==
  /\ Returned /\ NoGrouping(given) /\ given.percentRetain = Zero4
  /\ given.absoluteOffset = Zero4
  /\ numPagesOfCall >= 2
  /\ \E k \in 1..numPagesOfCall : cropList[k] = boundingBoxList[k]
  /\ \E k \in 1..numPagesOfCall : \E i \in 1..4 : ~Inside(k, i)

-----------------------------------------------------------------------------
RetainAll ==
  /\ given.percentRetain = <<100, 100, 100, 100>>
  /\ given.absoluteOffset = Zero4
  /\ ~given.samePageSize

(* C3, as stated: with percentRetain all 100, absoluteOffset all zero and   *)
(* same-page-size off, every returned crop box equals the full box of its   *)
(* page, whatever the uniform and even/odd options.                          *)
C3_CropIsFull ==
  (Returned /\ RetainAll /\ status = "ok") => cropList = fullPageBoxList

(* C3, amended: under those settings the call raises exactly when the       *)
(* uniform step meets a group without a selected page (see C4, C5), and     *)
(* otherwise returns the full boxes, except that with even/odd and uniform  *)
(* both requested every box takes the least bottom and the greatest top of  *)
(* all the full boxes.                                                       *)
C3_CropIsFullButEvenOddUniform ==
  (Returned /\ RetainAll) =>
    /\ (status = "error") <=> EmptyGroup(given, pageNumsToCrop)
    /\ status = "ok" =>
         cropList =
           IF given.evenodd /\ given.uniform
           THEN [k \in 1..numPagesOfCall |->
                   << fullPageBoxList[k][1],
                      MinOf({fullPageBoxList[j][2] : j \in 1..numPagesOfCall}),
                      fullPageBoxList[k][3],
                      MaxOf({fullPageBoxList[j][4] : j \in 1..numPagesOfCall}) >>]
           ELSE fullPageBoxList

C3_Witness ==
  /\ Returned /\ RetainAll /\ status = "ok"
  /\ given.evenodd /\ given.uniform
  /\ cropList # fullPageBoxList

-----------------------------------------------------------------------------
(* C4: with even/odd enabled, for every page count and selection the call   *)
(* returns one crop box per page, in page order, the box of page p being    *)
(* box p of the result computed for the selected pages of p's parity.       *)
C4_EvenOddRecombines ==
  (Returned /\ given.evenodd) =>
    /\ EvenPages(pageNumsToCrop) \cap OddPages(pageNumsToCrop) = {}
    /\ EvenPages(pageNumsToCrop) \cup OddPages(pageNumsToCrop) = pageNumsToCrop
    /\ status = "ok"
    /\ Len(cropList) = numPagesOfCall
    /\ \A p \in 0..(numPagesOfCall - 1) :
         LET group == IF p % 2 = 0 THEN EvenPages(pageNumsToCrop)
                      ELSE OddPages(pageNumsToCrop)
             part == cropListNoEvenOdd(FullOfCall, boundingBoxList, group,
                       [given EXCEPT !.evenodd = FALSE, !.uniform = TRUE],
                       pythonVersion)
         IN ~part.err /\ cropList[p + 1] = part.list[p + 1]

-----------------------------------------------------------------------------
(* C5: in uniform mode an order-statistic index below 0 is replaced by 0    *)
(* and one at or above the number of selected pages by that number less     *)
(* one, with a warning, and the call still returns a crop list.             *)
C5_OutOfRangeIndexRecovered ==
  (Returned /\ ~given.evenodd /\ given.uniformOrderStat # <<>>
     /\ given.uniformOrderPercent = <<>>)
    => LET i == given.uniformOrderStat[1]
           count == Cardinality(pageNumsToCrop)
       IN /\ status = "ok"
          /\ Len(cropList) = numPagesOfCall
          /\ (i < 0 \/ i >= count) => warned
          /\ \A p \in 0..(numPagesOfCall - 1) : \A m \in 1..4 :
               IsIthSmallest(AppliedDelta(p, m), pageNumsToCrop, m,
                             ClampIndex(i, count))

-----------------------------------------------------------------------------
(* C6, as stated: in crop mode a page outside the selection leaves          *)
(* applyCropList with all five boxes as the input document had them.        *)
C6_UnselectedUntouched ==
  CropRunDone =>
    \A k \in 1..Len(outputDoc.pages) :
      (k - 1) \notin pageNumsToCrop =>
        /\ outputDoc.pages[k].mediaBox = runInput.pages[k].mediaBox
        /\ outputDoc.pages[k].cropBox = runInput.pages[k].cropBox
        /\ outputDoc.pages[k].trimBox = runInput.pages[k].trimBox
        /\ outputDoc.pages[k].artBox = runInput.pages[k].artBox
        /\ outputDoc.pages[k].bleedBox = runInput.pages[k].bleedBox

(* C6, amended: such a page keeps its media, crop, trim and bleed boxes;    *)
(* its art box is kept when undo-save is disabled or the document already   *)
(* carries the marker, and otherwise becomes the page's full-page box.      *)
C6_UnselectedKeepAllButArt ==
  CropRunDone =>
    \A k \in 1..Len(outputDoc.pages) :
      (k - 1) \notin pageNumsToCrop =>
        /\ outputDoc.pages[k].mediaBox = runInput.pages[k].mediaBox
        /\ outputDoc.pages[k].cropBox = runInput.pages[k].cropBox
        /\ outputDoc.pages[k].trimBox = runInput.pages[k].trimBox
        /\ outputDoc.pages[k].bleedBox = runInput.pages[k].bleedBox
        /\ outputDoc.pages[k].artBox =
             IF given.noundosave \/ Marked(runInput.producer)
             THEN runInput.pages[k].artBox
             ELSE CommonBox(runInput.pages[k], given.fullPageBox)

C6_Witness ==
  /\ CropRunDone
  /\ ~given.noundosave /\ ~Marked(runInput.producer)
  /\ \E k \in 1..Len(outputDoc.pages) :
       /\ (k - 1) \notin pageNumsToCrop
       /\ runInput.pages[k].mediaBox # runInput.pages[k].cropBox
       /\ outputDoc.pages[k].artBox # runInput.pages[k].artBox
  /\ \E k \in 1..Len(outputDoc.pages) : (k - 1) \in pageNumsToCrop

-----------------------------------------------------------------------------
(* C7, as stated: calculateCropList leaves the configuration as it found    *)
(* it, and a second call with the same arguments returns what the first     *)
(* returned.                                                                 *)
C7_NoSideEffects ==
  /\ pc \in {"returned", "returnedAgain"} => args = given
  /\ pc = "returnedAgain" =>
       firstResult = [err |-> status = "error", list |-> cropList]

(* C7, amended: the call writes the configuration: with even/odd set it     *)
(* returns with even/odd cleared and uniform set, and a supplied percentile *)
(* overwrites the order-statistic setting with an index; every other        *)
(* setting keeps its value.  A second call with the same arguments returns  *)
(* what the first returned when even/odd was not set on entry.              *)
C7_WritesGroupingFlags ==
  /\ pc \in {"returned", "returnedAgain"} =>
       /\ args.evenodd = FALSE
       /\ args.uniform = (given.uniform \/ given.evenodd)
       /\ given.uniformOrderPercent = <<>> =>
            args.uniformOrderStat = given.uniformOrderStat
       /\ (given.uniformOrderPercent # <<>> /\ ~given.evenodd) =>
            args.uniformOrderStat = << SuppliedIndex >>
       /\ given.uniformOrderPercent # <<>> => Len(args.uniformOrderStat) = 1
       /\ [args EXCEPT !.evenodd = FALSE, !.uniform = FALSE, !.uniformOrderStat = <<>>]
            = [given EXCEPT !.evenodd = FALSE, !.uniform = FALSE, !.uniformOrderStat = <<>>]
  /\ (pc = "returnedAgain" /\ ~given.evenodd) =>
       firstResult = [err |-> status = "error", list |-> cropList]

C7_Witness ==
  /\ pc = "returnedAgain"
  /\ status = "ok"
  /\ given.evenodd
  /\ ~firstResult.err
  /\ firstResult.list # cropList

-----------------------------------------------------------------------------
(* Some page of the document the run read has no source box at all, or no  *)
(* non-empty common rectangle of its source boxes.                          *)
AbsentSomewhere ==
  \E k \in 1..Len(runInput.pages) : SourcesAbsent(runInput.pages[k], given.fullPageBox)
EmptySomewhere ==
  \E k \in 1..Len(runInput.pages) : SourcesEmpty(runInput.pages[k], given.fullPageBox)

(* C8, as stated: when the source boxes of some page have no non-empty      *)
(* common rectangle, or the rectangle is absent, the run ends in a fatal    *)
(* error and no crop box is computed or written.                             *)
C8_EmptyFullBoxIsFatal ==
  (pc = "done" /\ (AbsentSomewhere \/ EmptySomewhere)) =>
    status = "error" /\ ~outputDoc.written /\ cropList = <<>>

(* C8, amended: the run ends in a fatal error, with no crop box computed or *)
(* written, when every source box named for some page is absent.  A present *)
(* but empty common rectangle is no error: it is the page's full-page box,  *)
(* and the run ends in an error only for another reason (no Producer        *)
(* attribute, or the empty group of C4 and C5) and otherwise writes the     *)
(* crop boxes computed from it.                                              *)
C8_OnlyAbsentFullBoxIsFatal ==
  pc = "done" =>
    /\ AbsentSomewhere =>
         status = "error" /\ ~outputDoc.written /\ cropList = <<>>
    /\ (~AbsentSomewhere /\ status = "error") =>
         \/ runInput.producer.none
         \/ ~given.restore /\ EmptyGroup(given, pageNumsToCrop)
    /\ ~AbsentSomewhere =>
         fullPageBoxList = [k \in 1..Len(runInput.pages) |->
                              CommonBox(runInput.pages[k], given.fullPageBox)]
    /\ (status = "ok" /\ ~given.restore) =>
         /\ outputDoc.written
         /\ Len(cropList) = Len(runInput.pages)
         /\ \A k \in 1..Len(outputDoc.pages) :
              ((k - 1) \in pageNumsToCrop
                 /\ inSeq("c", EffectiveBoxesToSet(given.boxesToSet))) =>
                outputDoc.pages[k].cropBox = cropList[k]

C8_Witness ==
  /\ pc = "done" /\ status = "ok" /\ ~given.restore
  /\ outputDoc.written
  /\ \E k \in 1..Len(outputDoc.pages) :
       /\ SourcesEmpty(runInput.pages[k], given.fullPageBox)
       /\ (k - 1) \in pageNumsToCrop
       /\ outputDoc.pages[k].cropBox = cropList[k]

-----------------------------------------------------------------------------
(* C9, as stated: after a restore run the Producer attribute of the output  *)
(* equals that of the input, with or without the suffix.                     *)
C9_RestoreKeepsProducer ==
  RestoreRunDone => outputDoc.producer = runInput.producer

(* C9, amended: a restore run leaves the Producer attribute as it was when  *)
(* the input carries the suffix, and appends the suffix, once, when it does *)
(* not.                                                                       *)
C9_RestoreMarksUnmarked ==
  RestoreRunDone =>
    outputDoc.producer =
      IF Marked(runInput.producer) THEN runInput.producer
      ELSE [none |-> FALSE, s |-> runInput.producer.s \o ProducerSuffix]

C9_Witness ==
  /\ RestoreRunDone
  /\ ~Marked(runInput.producer)
  /\ Marked(outputDoc.producer)
  /\ outputDoc.producer # runInput.producer

-----------------------------------------------------------------------------
(* C10: in uniform mode without even/odd and with a non-empty selection S,  *)
(* the delta applied to every page of the document, for each margin, is the *)
(* i-th smallest of the deltas of the pages of S for that margin, i being   *)
(* the effective index (0 when no index or percentile is supplied).         *)
C10_UniformOrderStatistic ==
  (Returned /\ ~given.evenodd /\ UniformMode(given) /\ pageNumsToCrop # {}) =>
    /\ status = "ok"
    /\ Len(cropList) = numPagesOfCall
    /\ \A p \in 0..(numPagesOfCall - 1) : \A m \in 1..4 :
         IsIthSmallest(AppliedDelta(p, m), pageNumsToCrop, m, EffectiveIndex)

C10_Witness ==
  /\ Returned /\ ~given.evenodd /\ UniformMode(given) /\ status = "ok"
  /\ Cardinality(pageNumsToCrop) = 2
  /\ EffectiveIndex = 1
  /\ \E p \in 0..(numPagesOfCall - 1), q \in pageNumsToCrop, m \in 1..4 :
       /\ p \notin pageNumsToCrop
       /\ PageDelta(p, m) < AppliedDelta(q, m)
       /\ AppliedDelta(p, m) = AppliedDelta(q, m)

-----------------------------------------------------------------------------
(* What the call would return in the baseline per-page mode: the same       *)
(* arguments with uniform, the index and the percentile taken away.         *)
BaselineArgs ==
  [given EXCEPT !.uniform = FALSE, !.uniformOrderStat = <<>>,
                !.uniformOrderPercent = <<>>]

Baseline ==
  calculateCropList(fullPageBoxList, boundingBoxList, pageNumsToCrop,
                    BaselineArgs, pythonVersion)

OnePageUniform ==
  /\ Returned
  /\ ~given.evenodd
  /\ UniformMode(given)
  /\ Cardinality(pageNumsToCrop) = 1

(* C11: in uniform mode (without even/odd) with exactly one selected page   *)
(* p, whatever index or percentile is supplied, the call returns and the    *)
(* crop box of p equals the crop box the baseline per-page mode returns     *)
(* for p, which applies to p its own deltas.                                 *)
C11_OnePageUniformIsBaseline ==
  OnePageUniform =>
    /\ status = "ok"
    /\ ~Baseline.err
    /\ \A p \in pageNumsToCrop :
         /\ cropList[p + 1] = Baseline.list[p + 1]
         /\ \A m \in 1..4 : AppliedDelta(p, m) = PageDelta(p, m)

C11_Witness ==
  /\ OnePageUniform
  /\ status = "ok"
  /\ warned
  /\ SuppliedIndex >= 1
  /\ numPagesOfCall >= 2
  /\ \E p \in pageNumsToCrop : cropList[p + 1] = Baseline.list[p + 1]
  /\ \E q \in 0..(numPagesOfCall - 1) : cropList[q + 1] # Baseline.list[q + 1]

-----------------------------------------------------------------------------
(* A crop run that saves to the art box: undo-save enabled, on a document  *)
(* without the marker.                                                       *)
SavingCropRunDone ==
  CropRunDone /\ ~given.noundosave /\ ~Marked(runInput.producer)

(* What lines 395-396 store in the art box of page k (from 1) of the        *)
(* document the run read, before lines 418-422 set the boxes to set.        *)
Stashed(k) ==
  savePage(getFullPageBox(runInput.pages[k], given.fullPageBox),
           given.noundosave, Marked(runInput.producer)).artBox

(* C12: in a crop run with undo-save on an unmarked document, the value     *)
(* stored in the art box of each selected page before its boxes are         *)
(* overwritten is the intersection of the media box and the crop box the    *)
(* page had in the input document, whatever source boxes fullPageBox names; *)
(* it is the art box of the page written unless the art box is set too.     *)
C12_StashIsOriginalIntersection ==
  SavingCropRunDone =>
    \A k \in 1..Len(outputDoc.pages) :
      (k - 1) \in pageNumsToCrop =>
        /\ Stashed(k) = CommonBox(runInput.pages[k], <<"m", "c">>)
        /\ ~inSeq("a", EffectiveBoxesToSet(given.boxesToSet)) =>
             outputDoc.pages[k].artBox = Stashed(k)

-----------------------------------------------------------------------------
MarkedCropRunDone == CropRunDone /\ Marked(runInput.producer)

(* C13, as stated: a crop run on a document that carries the marker leaves  *)
(* the art box of every page as the input document had it, for every page   *)
(* selection and every choice of boxes to set.                               *)
C13_MarkedCropKeepsArt ==
  MarkedCropRunDone =>
    \A k \in 1..Len(outputDoc.pages) :
      outputDoc.pages[k].artBox = runInput.pages[k].artBox

(* C13, amended: such a run leaves the art box of a page as the input       *)
(* document had it, unless the page is selected and the art box is among    *)
(* the boxes to set; the art box of that page becomes the crop box computed *)
(* for it, and the backup of the first crop is lost.                         *)
C13_MarkedCropKeepsArtUnlessSet ==
  MarkedCropRunDone =>
    \A k \in 1..Len(outputDoc.pages) :
      outputDoc.pages[k].artBox =
        IF (k - 1) \in pageNumsToCrop
           /\ inSeq("a", EffectiveBoxesToSet(given.boxesToSet))
        THEN cropList[k]
        ELSE runInput.pages[k].artBox

(* A second crop, of the output of a first crop that saved to the art box:  *)
(* a selected page is cropped again and keeps the backup of the first crop. *)
C13_Witness ==
  /\ MarkedCropRunDone
  /\ ~given.noundosave
  /\ lastRun.ran /\ ~lastRun.args.restore /\ ~lastRun.args.noundosave
  /\ ~Marked(lastRun.input.producer)
  /\ \E k \in 1..Len(outputDoc.pages) :
       /\ (k - 1) \in pageNumsToCrop
       /\ outputDoc.pages[k].mediaBox # runInput.pages[k].mediaBox
       /\ outputDoc.pages[k].artBox # outputDoc.pages[k].mediaBox
       /\ outputDoc.pages[k].artBox
            = CommonBox(lastRun.input.pages[k], lastRun.args.fullPageBox)

-----------------------------------------------------------------------------
(* The selected pages of the parity of page p. *)
GroupOf(p) ==
  IF p % 2 = 0 THEN EvenPages(pageNumsToCrop) ELSE OddPages(pageNumsToCrop)

(* The index supplied for a group of count pages: the index given, or the   *)
(* percentile given, turned into an index of that group.                    *)
SuppliedIndexOf(count) ==
  IF given.uniformOrderPercent # <<>>
  THEN LET q == given.uniformOrderPercent[1]
           c == IF q < 0 THEN 0 ELSE IF q > 100 THEN 100 ELSE q
           x == count * c
       IN IF 2 * (x % 100) < 100 THEN x \div 100
          ELSE IF 2 * (x % 100) > 100 THEN x \div 100 + 1
          ELSE IF pythonVersion = 2 \/ (x \div 100) % 2 = 1 THEN x \div 100 + 1
          ELSE x \div 100
  ELSE IF given.uniformOrderStat # <<>> THEN given.uniformOrderStat[1]
  ELSE 0

(* The delta of the non-empty group S for margin m: the order statistic of  *)
(* the deltas of the pages of S.                                             *)
GroupDelta(S, m) ==
  CHOOSE v \in {PageDelta(q, m) : q \in S} :
    IsIthSmallest(v, S, m, ClampIndex(SuppliedIndexOf(Cardinality(S)), Cardinality(S)))

(* The box of page p in the result of its parity group. *)
GroupBox(p) ==
  LET S == GroupOf(p)
      F == FullOfCall[p + 1]
  IN << F[1] + GroupDelta(S, 1), F[2] + GroupDelta(S, 2),
        F[3] - GroupDelta(S, 3), F[4] - GroupDelta(S, 4) >>

AllPagesOfCall == 0..(numPagesOfCall - 1)

(* C14: when the call with even/odd returns, then with uniform requested as *)
(* well every page's box has the least bottom and the greatest top of the   *)
(* boxes of all pages in their parity groups' results, and the left and     *)
(* right of its own group's result; without uniform every page's box is the *)
(* box of its parity group's result.                                         *)
C14_EvenOddLevelsBottomTop ==
  (Returned /\ given.evenodd /\ status = "ok") =>
    /\ Len(cropList) = numPagesOfCall
    /\ \A p \in AllPagesOfCall :
         cropList[p + 1] =
           IF given.uniform
           THEN << GroupBox(p)[1],
                   MinOf({GroupBox(q)[2] : q \in AllPagesOfCall}),
                   GroupBox(p)[3],
                   MaxOf({GroupBox(q)[4] : q \in AllPagesOfCall}) >>
           ELSE GroupBox(p)

C14_Witness ==
  /\ Returned /\ given.evenodd /\ given.uniform /\ status = "ok"
  /\ numPagesOfCall >= 3
  /\ \E p \in AllPagesOfCall :
       /\ cropList[p + 1] # GroupBox(p)
       /\ cropList[p + 1][1] = GroupBox(p)[1]
       /\ cropList[p + 1][4] > GroupBox(p)[4]
  /\ \E p, q \in AllPagesOfCall :
       /\ p % 2 # q % 2
       /\ AppliedDelta(p, 1) # AppliedDelta(q, 1)
       /\ cropList[p + 1][2] = cropList[q + 1][2]
       /\ GroupBox(p)[2] # GroupBox(q)[2]

-----------------------------------------------------------------------------
(* This run and all the runs before it were crop runs, the first of them on *)
(* a document with a Producer attribute that does not end with the suffix.  *)
CropRunsOnUnmarked ==
  /\ pc = "done" /\ status = "ok"
  /\ ~given.restore /\ lastRun.allCrop
  /\ ~origDoc.producer.none
  /\ ~Marked(origDoc.producer)

(* C15: after one or more crop runs, each on the output of the one before,  *)
(* starting from a document whose Producer attribute does not end with the  *)
(* suffix, the Producer attribute written is the original one followed by   *)
(* one copy of the suffix; a run on a marked document appends nothing.      *)
C15_MarkerAppendedOnce ==
  CropRunsOnUnmarked =>
    /\ outputDoc.producer =
         [none |-> FALSE, s |-> origDoc.producer.s \o ProducerSuffix]
    /\ Marked(runInput.producer) => outputDoc.producer = runInput.producer

C15_Witness ==
  /\ CropRunsOnUnmarked
  /\ run >= 2
  /\ lastRun.ran /\ ~lastRun.args.restore
  /\ Marked(runInput.producer)
  /\ outputDoc.producer = runInput.producer
  /\ outputDoc.producer # origDoc.producer
  /\ Len(outputDoc.producer.s) = Len(origDoc.producer.s) + Len(ProducerSuffix)

-----------------------------------------------------------------------------
TightChoices == {input.tight : input \in PageInputs}

PagesOfParity(parity) == {p \in AllPagesOfCall : p % 2 = parity}

(* The inputs that differ from the input of the call at most in the tight   *)
(* boxes and in the selection of the pages of the given parity.             *)
VariantsIn(parity) ==
  { [tight |-> [k \in 1..numPagesOfCall |->
                  IF (k - 1) % 2 = parity THEN t[k - 1] ELSE boundingBoxList[k]],
     sel |-> (pageNumsToCrop \ PagesOfParity(parity)) \cup o] :
      t \in [PagesOfParity(parity) -> TightChoices],
      o \in SUBSET PagesOfParity(parity) }

ResultOf(variant) ==
  calculateCropList(fullPageBoxList, variant.tight, variant.sel, given, pythonVersion)

EvenOddOnly ==
  /\ Returned /\ status = "ok"
  /\ given.evenodd /\ ~given.uniform /\ ~given.samePageSize

(* C16: with even/odd set, uniform not requested and same-page-size off,    *)
(* two calls that both return, on inputs that differ only in the tight      *)
(* boxes or the selection of the odd-numbered pages, return the same boxes  *)
(* for the even-numbered pages; and likewise with odd and even exchanged.   *)
C16_ParityGroupsIndependent ==
  EvenOddOnly =>
    \A parity \in {0, 1} : \A variant \in VariantsIn(parity) :
      ~ResultOf(variant).err =>
        \A p \in PagesOfParity(1 - parity) :
          ResultOf(variant).list[p + 1] = cropList[p + 1]

C16_Witness ==
  /\ EvenOddOnly
  /\ numPagesOfCall >= 3
  /\ \E variant \in VariantsIn(0) :
       /\ variant.sel # pageNumsToCrop
       /\ variant.tight # boundingBoxList
       /\ ~ResultOf(variant).err
       /\ \E p \in PagesOfParity(0) : ResultOf(variant).list[p + 1] # cropList[p + 1]
       /\ \A p \in PagesOfParity(1) : ResultOf(variant).list[p + 1] = cropList[p + 1]
  /\ \E variant \in VariantsIn(1) :
       /\ variant.tight # boundingBoxList
       /\ ~ResultOf(variant).err
       /\ \E p \in PagesOfParity(1) : ResultOf(variant).list[p + 1] # cropList[p + 1]
       /\ \A p \in PagesOfParity(0) : ResultOf(variant).list[p + 1] = cropList[p + 1]

====
